---- MODULE Spec2Model ----
(***************************************************************************)
(* State-machine model of the database-backed quiz application             *)
(* (src/app.py with the tables of src/models.py).                          *)
(*                                                                         *)
(* One browser session (the Flask session cookie) talks to one database.   *)
(* Every route handler is one atomic action; the request that was served   *)
(* last and the response it got are kept in `last`.                        *)
(*                                                                         *)
(* Representation choices:                                                 *)
(*   - form values are strings, as request.form delivers them; Missing     *)
(*     stands for a key that is not in the form;                           *)
(*   - primary keys are positions in the table's sequence (autoincrement   *)
(*     from 1, rows are never deleted by the application);                 *)
(*   - a float percentage is the exact rational <<num, den>> in lowest     *)
(*     terms (binary rounding error of float64 is not modelled);           *)
(*   - text columns of a question (text, options, explanation, difficulty) *)
(*     take no part in any transition and are left out.                    *)
(*                                                                         *)
(* Two further parts share the module:                                     *)
(*   - the concurrent browser (SpecConcurrent): POST /submit requests in   *)
(*     flight each carry their own copy of the session cookie (inflight);  *)
(*   - the account services of the production application (SpecLogin,    *)
(*     SpecAccount): src/production-quiz-app/app/services/auth_service.py  *)
(*     over the rows of app/models/user.py (accounts, next_token, ret).    *)
(***************************************************************************)
EXTENDS Integers, Sequences, FiniteSets, TLC

VARIABLES session, users, attempts, user_answers, now, last,
          accounts, next_token, ret, inflight

\* the variables of the production services (app/services/auth_service.py)
auth == <<accounts, next_token, ret>>

vars == <<session, users, attempts, user_answers, now, last,
          accounts, next_token, ret, inflight>>

(***************************************************************************)
(* Bounds of the model.                                                    *)
(***************************************************************************)
MaxAttempts == 2
MaxRows == 3
MaxTime == 2

(***************************************************************************)
(* Values.                                                                 *)
(***************************************************************************)
\* SQL NULL / Python None in an integer position
NULL == -1
\* a key that is absent from request.form
Missing == "<missing>"

\* usernames a login form is submitted with ("" is the empty field); one
\* user is enough for the quiz attempt, whose transitions never read who
\* the user is
Usernames == {"", "alice"}
\* quiz_id values a start form is submitted with ("9" is no quiz's id)
QuizIdForms == {Missing, "1", "2", "9"}
\* answer values a submit form is submitted with: an option index that is
\* the correct one of some questions and a wrong one of others, a number
\* that is no option index, and text that is no number
AnswerForms == {"1", "7", "abc"}

\* strings Python's int() accepts, with their values
IntStrings == {"1", "2", "7", "9"}
IntValue ==
  [s \in IntStrings |->
     CASE s = "1" -> 1
       [] s = "2" -> 2
       [] s = "7" -> 7
       [] s = "9" -> 9]

(***************************************************************************)
(* The seeded tables quizzes and questions (never written by app.py).      *)
(* Quiz 2 is a quiz row that has no question rows.                         *)
(***************************************************************************)
Quizzes == {1, 2}

QuestionRows ==
  << [quiz_id |-> 1, correct_answer |-> 1, order_index |-> 0],
     [quiz_id |-> 1, correct_answer |-> 0, order_index |-> 1],
     [quiz_id |-> 1, correct_answer |-> 1, order_index |-> 2] >>

QuestionIds == 1..Len(QuestionRows)

\* Question.to_dict
to_dict(qid) == [id |-> qid, correct |-> QuestionRows[qid].correct_answer]

(***************************************************************************)
(* Helpers.                                                                *)
(***************************************************************************)
RECURSIVE GCD(_, _)
GCD(a, b) == IF b = 0 THEN a ELSE GCD(b, a % b)

\* the rational n/d (n >= 0, d > 0) in lowest terms
Ratio(n, d) == LET g == GCD(n, d) IN <<n \div g, d \div g>>

\* Python round(n/d, 2): nearest multiple of 1/100, ties to the even one
PyRound2(n, d) ==
  LET q == (100 * n) \div d
      r == (100 * n) % d
      h == IF 2 * r > d THEN q + 1
           ELSE IF 2 * r < d THEN q
           ELSE IF q % 2 = 0 THEN q ELSE q + 1
  IN Ratio(h, 100)

\* int(request.form.get('answer', -1))
IntParse(v) ==
  IF v = Missing THEN [ok |-> TRUE, val |-> -1]
  ELSE IF v \in IntStrings THEN [ok |-> TRUE, val |-> IntValue[v]]
  ELSE [ok |-> FALSE, val |-> 0]

\* Quiz.query.get(quiz_id): the quiz row's id, or NULL
QuizGet(v) ==
  IF v \in IntStrings /\ IntValue[v] \in Quizzes THEN IntValue[v] ELSE NULL

\* Question.query.filter_by(quiz_id=..).order_by(Question.order_index).all()
RECURSIVE QuestionsFrom(_, _)
QuestionsFrom(quiz, i) ==
  IF i > Len(QuestionRows) THEN <<>>
  ELSE IF QuestionRows[i].quiz_id = quiz
       THEN <<i>> \o QuestionsFrom(quiz, i + 1)
       ELSE QuestionsFrom(quiz, i + 1)

QuestionsOfQuiz(quiz) == QuestionsFrom(quiz, 1)

\* the orders random.shuffle can leave a list in
Shuffles(list) ==
  LET n == Len(list)
      bij == {p \in [1..n -> 1..n] : \A i, j \in 1..n : p[i] = p[j] => i = j}
  IN {[i \in 1..n |-> list[p[i]]] : p \in bij}

\* GetItem with the index clamped to the last element instead of IndexError
GetItemClamped(list, i) ==
  IF list = <<>> THEN [ok |-> FALSE, val |-> [id |-> 0, correct |-> 0]]
  ELSE IF i < Len(list) THEN [ok |-> TRUE, val |-> list[i + 1]]
  ELSE [ok |-> TRUE, val |-> list[Len(list)]]

\* list[i] of a Python list for i >= 0: IndexError when i >= len(list)
GetItem(list, i) ==
  IF i < Len(list) THEN [ok |-> TRUE, val |-> list[i + 1]]
  ELSE [ok |-> FALSE, val |-> [id |-> 0, correct |-> 0]]

\* User.query.filter_by(username=..).first(): the user's id, or NULL
UserByName(name) ==
  IF \E i \in 1..Len(users) : users[i] = name
  THEN CHOOSE i \in 1..Len(users) : users[i] = name
  ELSE NULL

(***************************************************************************)
(* The session cookie.  A key that is not in the session holds its         *)
(* placeholder; has_questions says whether 'questions' is in the session   *)
(* (start_quiz sets the six quiz keys together, logout removes all keys).  *)
(***************************************************************************)
EmptySession ==
  [user_id |-> NULL, username |-> "",
   has_questions |-> FALSE, quiz_id |-> "", attempt_id |-> NULL,
   questions |-> <<>>, current_index |-> 0, score |-> 0, answers |-> <<>>]

\* LoggedIn as if the login_required decorator were missing
LoggedInAlways(s) == TRUE

\* 'user_id' in session
LoggedIn(s) == s.user_id # NULL

Respond(route, arg, status) ==
  last' = [route |-> route, arg |-> arg, status |-> status]

Init ==
  /\ session = EmptySession
  /\ users = <<>>
  /\ attempts = <<>>
  /\ user_answers = <<>>
  /\ now = 1
  /\ last = [route |-> "", arg |-> "", status |-> ""]
  /\ accounts = <<>>
  /\ next_token = 1
  /\ ret = [op |-> "", ok |-> FALSE, user |-> NULL, message |-> ""]
  /\ inflight = <<>>

(***************************************************************************)
(* datetime.utcnow() advances between requests.                            *)
(***************************************************************************)
Tick ==
  /\ now < MaxTime
  /\ now' = now + 1
  /\ UNCHANGED <<session, users, attempts, user_answers, last, auth, inflight>>

(***************************************************************************)
(* GET /                                                                   *)
(***************************************************************************)
Index ==
  /\ IF LoggedIn(session)
     THEN Respond("index", "", "redirect:dashboard")
     ELSE Respond("index", "", "render:index")
  /\ UNCHANGED <<session, users, attempts, user_answers, now, auth, inflight>>

(***************************************************************************)
(* GET /login and POST /login                                              *)
(***************************************************************************)
LoginForm ==
  /\ Respond("login_form", "", "render:login")
  /\ UNCHANGED <<session, users, attempts, user_answers, now, auth, inflight>>

Login(username) ==
  IF username = ""
  THEN /\ Respond("login", username, "render:login_error")
       /\ UNCHANGED <<session, users, attempts, user_answers, now, auth, inflight>>
  ELSE LET found == UserByName(username)
           uid == IF found # NULL THEN found ELSE Len(users) + 1
       IN /\ users' = IF found # NULL THEN users ELSE Append(users, username)
          /\ session' = [session EXCEPT !.user_id = uid, !.username = username]
          /\ Respond("login", username, "redirect:dashboard")
          /\ UNCHANGED <<attempts, user_answers, now, auth, inflight>>

(***************************************************************************)
(* GET /logout                                                             *)
(***************************************************************************)
Logout ==
  /\ session' = EmptySession
  /\ Respond("logout", "", "redirect:index")
  /\ UNCHANGED <<users, attempts, user_answers, now, auth, inflight>>

(***************************************************************************)
(* POST /start                                                             *)
(***************************************************************************)
\* StartRejected without the check of questions_db
StartRejectedNoEmptyCheck(quiz_id) ==
  \/ quiz_id = Missing
  \/ quiz_id = ""
  \/ QuizGet(quiz_id) = NULL

\* the early returns of start_quiz: no quiz_id, unknown quiz, no questions
StartRejected(quiz_id) ==
  \/ quiz_id = Missing
  \/ quiz_id = ""
  \/ QuizGet(quiz_id) = NULL
  \/ QuestionsOfQuiz(QuizGet(quiz_id)) = <<>>

StartQuiz(quiz_id) ==
  IF ~LoggedIn(session)
  THEN /\ Respond("start_quiz", quiz_id, "redirect:login")
       /\ UNCHANGED <<session, users, attempts, user_answers, now, auth, inflight>>
  ELSE IF StartRejected(quiz_id)
  THEN /\ Respond("start_quiz", quiz_id, "redirect:dashboard")
       /\ UNCHANGED <<session, users, attempts, user_answers, now, auth, inflight>>
  ELSE /\ Len(attempts) < MaxAttempts
       /\ \E questions \in Shuffles(QuestionsOfQuiz(QuizGet(quiz_id))) :
            /\ attempts' = Append(attempts,
                 [user_id |-> session.user_id,
                  quiz_id |-> QuizGet(quiz_id),
                  completed_at |-> NULL,
                  score |-> NULL,
                  total_questions |-> NULL,
                  percentage |-> <<NULL, 1>>])
            /\ session' = [session EXCEPT
                 !.has_questions = TRUE,
                 !.quiz_id = quiz_id,
                 !.attempt_id = Len(attempts) + 1,
                 !.questions = [i \in 1..Len(questions) |-> to_dict(questions[i])],
                 !.current_index = 0,
                 !.score = 0,
                 !.answers = <<>>]
       /\ Respond("start_quiz", quiz_id, "redirect:question")
       /\ UNCHANGED <<users, user_answers, now, auth, inflight>>

(***************************************************************************)
(* GET /question                                                           *)
(***************************************************************************)
Question ==
  /\ IF ~LoggedIn(session)
     THEN Respond("question", "", "redirect:login")
     ELSE IF ~session.has_questions
     THEN Respond("question", "", "redirect:dashboard")
     ELSE IF session.current_index >= Len(session.questions)
     THEN Respond("question", "", "redirect:results")
     ELSE Respond("question", "", "render:question")
  /\ UNCHANGED <<session, users, attempts, user_answers, now, auth, inflight>>

(***************************************************************************)
(* POST /submit                                                            *)
(***************************************************************************)
\* RecordAnswer that never writes session['answers'] back
RecordAnswerNotStored(s, current_question, selected) ==
  [s EXCEPT
     !.score = IF selected = current_question.correct
               THEN s.score + 1 ELSE s.score,
     !.current_index = s.current_index + 1]

\* the session after the answer `selected` to current_question is recorded
RecordAnswer(s, current_question, selected) ==
  LET correct_answer == current_question.correct
      is_correct == selected = correct_answer
  IN [s EXCEPT
        !.score = IF is_correct THEN s.score + 1 ELSE s.score,
        !.answers = Append(s.answers,
                           [id |-> current_question.id,
                            selected |-> selected,
                            correct |-> correct_answer,
                            is_correct |-> is_correct]),
        !.current_index = s.current_index + 1]

SubmitAnswer(answer) ==
  IF ~LoggedIn(session)
  THEN /\ Respond("submit_answer", answer, "redirect:login")
       /\ UNCHANGED <<session, users, attempts, user_answers, now, auth, inflight>>
  ELSE IF ~session.has_questions
  THEN /\ Respond("submit_answer", answer, "redirect:dashboard")
       /\ UNCHANGED <<session, users, attempts, user_answers, now, auth, inflight>>
  ELSE LET current_question == GetItem(session.questions, session.current_index)
           selected_answer == IntParse(answer)
       IN IF ~current_question.ok
          THEN \* IndexError at questions[current_index]
               /\ Respond("submit_answer", answer, "error:IndexError")
               /\ UNCHANGED <<session, users, attempts, user_answers, now, auth, inflight>>
          ELSE IF ~selected_answer.ok
          THEN \* ValueError in int()
               /\ Respond("submit_answer", answer, "error:ValueError")
               /\ UNCHANGED <<session, users, attempts, user_answers, now, auth, inflight>>
          ELSE /\ session' = RecordAnswer(session, current_question.val,
                                          selected_answer.val)
               /\ Respond("submit_answer", answer, "redirect:question")
               /\ UNCHANGED <<users, attempts, user_answers, now, auth, inflight>>

(***************************************************************************)
(* GET /results                                                            *)
(***************************************************************************)
\* percentage = (score / total * 100) if total > 0 else 0
Percentage(score, total) ==
  IF total > 0 THEN Ratio(score * 100, total) ELSE <<0, 1>>

\* the attempt row as results() rewrites it
SaveAttempt(attempt, score, total, t) ==
  [attempt EXCEPT
     !.completed_at = t,
     !.score = score,
     !.total_questions = total,
     !.percentage = Percentage(score, total)]

\* the UserAnswer rows results() adds: one per session answer with an id
RECURSIVE AnswerRows(_, _)
AnswerRows(attempt_id, answers) ==
  IF answers = <<>> THEN <<>>
  ELSE LET answer == Head(answers)
           rest == AnswerRows(attempt_id, Tail(answers))
       IN IF answer.id # 0
          THEN << [attempt_id |-> attempt_id,
                   question_id |-> answer.id,
                   selected_answer |-> answer.selected,
                   is_correct |-> answer.is_correct] >> \o rest
          ELSE rest

Results ==
  IF ~LoggedIn(session)
  THEN /\ Respond("results", "", "redirect:login")
       /\ UNCHANGED <<session, users, attempts, user_answers, now, auth, inflight>>
  ELSE IF ~session.has_questions
  THEN /\ Respond("results", "", "redirect:dashboard")
       /\ UNCHANGED <<session, users, attempts, user_answers, now, auth, inflight>>
  ELSE LET score == session.score
           total == Len(session.questions)
           attempt_id == session.attempt_id
       IN /\ IF attempt_id # NULL /\ attempt_id \in 1..Len(attempts)
             THEN /\ Len(user_answers) + Len(session.answers) <= MaxRows
                  /\ attempts' = [attempts EXCEPT ![attempt_id] =
                                    SaveAttempt(@, score, total, now)]
                  /\ user_answers' =
                       user_answers \o AnswerRows(attempt_id, session.answers)
             ELSE UNCHANGED <<attempts, user_answers>>
          /\ Respond("results", "", "render:results")
          /\ UNCHANGED <<session, users, now, auth, inflight>>

(***************************************************************************)
(* GET /dashboard                                                          *)
(***************************************************************************)
Dashboard ==
  /\ IF ~LoggedIn(session)
     THEN Respond("dashboard", "", "redirect:login")
     ELSE IF session.user_id \notin 1..Len(users)
     THEN Respond("dashboard", "", "redirect:login")
     ELSE Respond("dashboard", "", "render:dashboard")
  /\ UNCHANGED <<session, users, attempts, user_answers, now, auth, inflight>>

(***************************************************************************)
(* Specification.                                                          *)
(***************************************************************************)
Next ==
  \/ Tick
  \/ Index
  \/ LoginForm
  \/ \E username \in Usernames : Login(username)
  \/ Logout
  \/ \E quiz_id \in QuizIdForms : StartQuiz(quiz_id)
  \/ Question
  \/ \E answer \in AnswerForms : SubmitAnswer(answer)
  \/ Results
  \/ Dashboard

Spec == Init /\ [][Next]_vars

(***************************************************************************)
(* Properties of the quiz attempt.                                         *)
(***************************************************************************)
\* the attempt row the session's quiz state belongs to
SessionAttempt == attempts[session.attempt_id]

\* the session holds a quiz whose position is at the end of its snapshot
AtEnd ==
  /\ session.has_questions
  /\ session.current_index = Len(session.questions)

\* the database tables
db == <<users, attempts, user_answers>>

\* C1: whenever the session holds a quiz, the number of recorded answers
\* equals the current position, and the position lies between 0 and the
\* number of questions of the snapshot.
C1_AnswersMatchPosition ==
  session.has_questions =>
    /\ Len(session.answers) = session.current_index
    /\ 0 <= session.current_index
    /\ session.current_index <= Len(session.questions)

\* C1 witness: a submit has just advanced the position to the end of a
\* three-question snapshot.
C1_Witness ==
  /\ last.route = "submit_answer"
  /\ last.status = "redirect:question"
  /\ session.current_index = Len(session.questions)
  /\ Len(session.answers) = 3

\* C2 (as claimed): the session's attempt has a completion timestamp exactly
\* when the position equals the number of questions.
C2_CompletedIffAtEnd ==
  session.has_questions =>
    (SessionAttempt.completed_at # NULL
       <=> session.current_index = Len(session.questions))

\* C3: a submit while the position equals the number of questions fails and
\* leaves the session (position, score, answers) and the database unchanged.
C3_SubmitAfterEndFails ==
  [][\A answer \in AnswerForms :
       (AtEnd /\ last'.route = "submit_answer" /\ SubmitAnswer(answer)) =>
         /\ last'.status = "error:IndexError"
         /\ session' = session
         /\ db' = db]_vars

\* C3 witness: a submit on a quiz at its end has been answered with an error.
C3_Witness ==
  /\ AtEnd
  /\ last.route = "submit_answer"
  /\ last.status = "error:IndexError"
  /\ Len(session.answers) = Len(session.questions)

\* C4 (as claimed): once an attempt has a completion timestamp, no step
\* changes its completed_at, score, total_questions or percentage.
C4_FinalizedOnce ==
  [][\A a \in 1..Len(attempts) :
       attempts[a].completed_at # NULL =>
         /\ attempts'[a].completed_at = attempts[a].completed_at
         /\ attempts'[a].score = attempts[a].score
         /\ attempts'[a].total_questions = attempts[a].total_questions
         /\ attempts'[a].percentage = attempts[a].percentage]_vars

\* C5 (as claimed): the user_answers table holds at most one row per
\* (attempt, question) pair.
C5_OneAnswerPerQuestion ==
  \A i, j \in 1..Len(user_answers) :
    (/\ user_answers[i].attempt_id = user_answers[j].attempt_id
     /\ user_answers[i].question_id = user_answers[j].question_id) => i = j

\* the rows of user_answers of attempt a whose selected index is the
\* question's correct index
CorrectRows(a) ==
  {i \in 1..Len(user_answers) :
     /\ user_answers[i].attempt_id = a
     /\ user_answers[i].selected_answer =
          QuestionRows[user_answers[i].question_id].correct_answer}

\* C6 (as claimed): the stored score of every completed attempt is the number
\* of its recorded answers that select the question's correct index.
C6_ScoreCountsCorrectAnswers ==
  \A a \in 1..Len(attempts) :
    attempts[a].completed_at # NULL =>
      attempts[a].score = Cardinality(CorrectRows(a))

\* C7 (as claimed): the stored percentage of every completed attempt is
\* round(100 * score / total_questions, 2), and 0 when total_questions is 0.
C7_PercentageRounded ==
  \A a \in 1..Len(attempts) :
    attempts[a].completed_at # NULL =>
      attempts[a].percentage =
        IF attempts[a].total_questions > 0
        THEN PyRound2(100 * attempts[a].score, attempts[a].total_questions)
        ELSE <<0, 1>>

\* the answer values the claim allows: an option index 0..3, or no answer
ValidAnswerForm(v) == v \in {Missing, "-1", "0", "1", "2", "3"}

\* C8 (as claimed): a submit whose answer is neither an option index 0..3 nor
\* the no-answer value is not accepted: it records nothing and the position
\* stays where it was.
C8_InvalidAnswerRejected ==
  [][\A answer \in AnswerForms :
       (/\ ~ValidAnswerForm(answer)
        /\ last'.route = "submit_answer"
        /\ SubmitAnswer(answer)) =>
         /\ last'.status # "redirect:question"
         /\ session' = session]_vars

\* the question ids of the quiz a start form names (none for an unknown quiz)
QuestionIdsOfForm(quiz_id) ==
  {q \in QuestionIds :
     quiz_id \in IntStrings /\ QuestionRows[q].quiz_id = IntValue[quiz_id]}

\* C9: a logged-in start on an unknown quiz or a quiz without questions
\* creates no attempt and leaves the session as it was; a start on a quiz
\* with questions adds exactly one attempt, in progress, and sets the session
\* to position 0, score 0, no answers and a snapshot with each question of
\* the quiz exactly once.
C9_StartQuiz ==
  [][\A quiz_id \in QuizIdForms :
       (/\ session.user_id # NULL
        /\ last'.route = "start_quiz"
        /\ last'.arg = quiz_id
        /\ StartQuiz(quiz_id)) =>
         IF QuestionIdsOfForm(quiz_id) = {}
         THEN /\ db' = db
              /\ session' = session
              /\ last'.status # "redirect:question"
         ELSE /\ Len(attempts') = Len(attempts) + 1
              /\ SubSeq(attempts', 1, Len(attempts)) = attempts
              /\ attempts'[Len(attempts')].completed_at = NULL
              /\ attempts'[Len(attempts')].user_id = session.user_id
              /\ user_answers' = user_answers
              /\ session'.has_questions
              /\ session'.attempt_id = Len(attempts')
              /\ session'.current_index = 0
              /\ session'.score = 0
              /\ session'.answers = <<>>
              /\ Len(session'.questions) = Cardinality(QuestionIdsOfForm(quiz_id))
              /\ \A q \in QuestionIdsOfForm(quiz_id) :
                   \E i \in 1..Len(session'.questions) :
                     session'.questions[i].id = q]_vars

\* C9 witness: a second attempt was started, and a later start on the quiz
\* without questions was turned away with the started quiz still in the
\* session.
C9_Witness ==
  /\ last.route = "start_quiz"
  /\ last.arg = "2"
  /\ last.status = "redirect:dashboard"
  /\ Len(attempts) = 2
  /\ attempts[2].completed_at = NULL
  /\ session.has_questions
  /\ session.attempt_id = 2
  /\ session.current_index = 0
  /\ session.answers = <<>>
  /\ Len(session.questions) = 3

\* C10: while no user is logged in, start_quiz, question, submit_answer,
\* results and dashboard only redirect to the login page; the session and
\* the database stay as they were.
C10_LoginRequired ==
  [][(/\ session.user_id = NULL
      /\ \/ \E quiz_id \in QuizIdForms : StartQuiz(quiz_id)
         \/ Question
         \/ \E answer \in AnswerForms : SubmitAnswer(answer)
         \/ Results
         \/ Dashboard) =>
       /\ last'.status = "redirect:login"
       /\ session' = session
       /\ db' = db]_vars

\* C10 witness: a start request of a logged-out session was redirected to
\* the login page and no attempt exists.
C10_Witness ==
  /\ session.user_id = NULL
  /\ last.route = "start_quiz"
  /\ last.arg = "1"
  /\ last.status = "redirect:login"
  /\ attempts = <<>>

(***************************************************************************)
(* Concurrent POST /submit.                                                *)
(*                                                                         *)
(* app.py keeps the quiz state in Flask's session, which is the signed     *)
(* cookie of the browser (app.secret_key, no server-side session store).   *)
(* A request carries the cookie the browser held when it was sent; the     *)
(* handler works on that copy and the response's Set-Cookie replaces the   *)
(* browser's cookie.  Two clicks before the first response arrives send    *)
(* the same cookie twice (the development server is threaded).             *)
(***************************************************************************)
MaxInflight == 2

\* submit_answer as a function of the cookie the request carries: the
\* response status and the session the response stores
submit_answer(s, answer) ==
  IF ~LoggedIn(s)
  THEN [status |-> "redirect:login", session |-> s]
  ELSE IF ~s.has_questions
  THEN [status |-> "redirect:dashboard", session |-> s]
  ELSE LET current_question == GetItem(s.questions, s.current_index)
           selected_answer == IntParse(answer)
       IN IF ~current_question.ok
          THEN [status |-> "error:IndexError", session |-> s]
          ELSE IF ~selected_answer.ok
          THEN [status |-> "error:ValueError", session |-> s]
          ELSE [status |-> "redirect:question",
                session |-> RecordAnswer(s, current_question.val,
                                         selected_answer.val)]

\* the browser posts the answer form with its current cookie
SendSubmit(answer) ==
  /\ Len(inflight) < MaxInflight
  /\ inflight' = Append(inflight, [answer |-> answer, cookie |-> session])
  /\ UNCHANGED <<session, users, attempts, user_answers, now, last, auth>>

\* the sequence without its i-th element
RemoveAt(seq, i) ==
  [j \in 1..(Len(seq) - 1) |-> IF j < i THEN seq[j] ELSE seq[j + 1]]

\* the server handles the i-th request in flight and the browser takes the
\* response: a response whose handler wrote the session replaces the cookie
ServeSubmit(i) ==
  /\ i \in 1..Len(inflight)
  /\ LET request == inflight[i]
         response == submit_answer(request.cookie, request.answer)
     IN /\ session' = IF response.session # request.cookie
                      THEN response.session ELSE session
        /\ Respond("submit_answer", request.answer, response.status)
  /\ inflight' = RemoveAt(inflight, i)
  /\ UNCHANGED <<users, attempts, user_answers, now, auth>>

\* the requests of one quiz attempt: log in, start the quiz that has
\* questions, post answers without waiting for the responses
NextConcurrent ==
  \/ \E username \in Usernames \ {""} : Login(username)
  \/ \E quiz_id \in QuizIdForms \cap {"1"} : StartQuiz(quiz_id)
  \/ \E answer \in AnswerForms : SendSubmit(answer)
  \/ \E i \in 1..MaxInflight : ServeSubmit(i)

SpecConcurrent == Init /\ [][NextConcurrent]_vars

(***************************************************************************)
(* Properties of concurrent submission.                                    *)
(***************************************************************************)
\* the i-th request in flight submits an answer of the attempt the browser's
\* session holds
SameAttempt(i) ==
  /\ i \in 1..Len(inflight)
  /\ session.has_questions
  /\ inflight[i].cookie.has_questions
  /\ inflight[i].cookie.attempt_id = session.attempt_id

\* C11: a POST /submit of an attempt that is served when that attempt already
\* stands at its end (another submission of the last question was applied
\* first) fails, and leaves the session as the first submission made it.
C11_SecondSubmitFails ==
  [][\A i \in 1..MaxInflight :
       (AtEnd /\ SameAttempt(i) /\ ServeSubmit(i)) =>
         /\ last'.status \in {"error:IndexError", "error:ValueError"}
         /\ session' = session]_vars

(***************************************************************************)
(* The account services of the production application                      *)
(* (src/production-quiz-app/app/services/auth_service.py) over the rows of *)
(* the users table (app/models/user.py).                                   *)
(*                                                                         *)
(*   - accounts is the users table, a row's id is its position;            *)
(*   - the clock `now` counts quarters of an hour here: the lock of        *)
(*     15 minutes is 1, the reset token's 3600 seconds are 4;              *)
(*   - secrets.token_urlsafe(32) returns a token no row holds: tokens are  *)
(*     numbered from next_token; token 0 is a string that was never issued;*)
(*   - a password hash is the pair of the method and the password it was   *)
(*     derived from (the salt is left out), NoHash is the NULL column;     *)
(*   - ret is the service that was called last and what it returned;       *)
(*   - is_admin, created_at, last_active and the attempts relationship     *)
(*     take no part in these services and are left out.                    *)
(***************************************************************************)
MaxUsers == 2
MaxTokens == 3
MaxClock == 6

\* user.py: failed_login_attempts >= 5, timedelta(minutes=15), expires_in=3600
LockThreshold == 5
LockDuration == 1
ResetExpiry == 4

AuthUsernames == {"alice", "bob"}
Emails == {"alice@example.com", "bob@example.com"}
Passwords == {"TestPass123", "WrongPass123"}
\* what the profile form can name: a registered name or a new one
ProfileUsernames == AuthUsernames \cup {"carol"}
\* what a login form can name: a username, an email, or neither
Identifiers == AuthUsernames \cup Emails \cup {"nonexistent"}
\* what a link can carry as its token
Tokens == 0..MaxTokens

NoHash == <<>>

\* werkzeug.security
generate_password_hash(password) == <<"pbkdf2:sha256", password>>
\* check_password_hash that compares the stored hash with the plaintext
check_password_hash_plain(pwhash, password) == pwhash = password

check_password_hash(pwhash, password) ==
  pwhash = generate_password_hash(password)

\* the messages the services return
InvalidCredentials == "Invalid username/email or password"
AccountLocked == "Account temporarily locked due to multiple failed login attempts. Please try again later."
AccountDeactivated == "Account is deactivated. Please contact support."
InvalidVerificationToken == "Invalid or expired verification token"
EmailVerified == "Email verified successfully! You can now log in."
InvalidResetToken == "Invalid or expired reset token"
ExpiredResetToken == "Reset token has expired. Please request a new one."

(***************************************************************************)
(* Methods of User.  Each is a function of the row (and the time or the    *)
(* token it draws) to the row it leaves behind.                            *)
(***************************************************************************)
\* set_password that also clears the failures and the lock
set_password_unlocks(user, password) ==
  [user EXCEPT !.password_hash = generate_password_hash(password),
               !.failed_login_attempts = 0,
               !.account_locked_until = NULL]

set_password(user, password) ==
  [user EXCEPT !.password_hash = generate_password_hash(password)]

check_password(user, password) ==
  IF user.password_hash = NoHash THEN FALSE
  ELSE check_password_hash(user.password_hash, password)

\* generate_verification_token that leaves the row as it is
generate_verification_token_noop(user, token) == user

generate_verification_token(user, token) ==
  [user EXCEPT !.verification_token = token]

\* User.verify_email that keeps the token
User_verify_email_keeps_token(user) ==
  [user EXCEPT !.email_verified = TRUE]

User_verify_email(user) ==
  [user EXCEPT !.email_verified = TRUE, !.verification_token = NULL]

generate_reset_token(user, token, t) ==
  [user EXCEPT !.password_reset_token = token,
               !.reset_token_expires = t + ResetExpiry]

\* verify_reset_token that does not look at the expiry
verify_reset_token_no_expiry(user, token, t) ==
  IF user.password_reset_token = NULL \/ user.reset_token_expires = NULL
  THEN FALSE
  ELSE IF user.password_reset_token # token THEN FALSE
  ELSE TRUE

verify_reset_token(user, token, t) ==
  IF user.password_reset_token = NULL \/ user.reset_token_expires = NULL
  THEN FALSE
  ELSE IF user.password_reset_token # token THEN FALSE
  ELSE IF t > user.reset_token_expires THEN FALSE
  ELSE TRUE

\* clear_reset_token that leaves the row as it is
clear_reset_token_noop(user) == user

clear_reset_token(user) ==
  [user EXCEPT !.password_reset_token = NULL, !.reset_token_expires = NULL]

\* record_failed_login that locks one failure late
record_failed_login_late(user, t) ==
  LET n == user.failed_login_attempts + 1
  IN [user EXCEPT
        !.failed_login_attempts = n,
        !.account_locked_until = IF n > LockThreshold
                                 THEN t + LockDuration ELSE @]

record_failed_login(user, t) ==
  LET n == user.failed_login_attempts + 1
  IN [user EXCEPT
        !.failed_login_attempts = n,
        !.account_locked_until = IF n >= LockThreshold
                                 THEN t + LockDuration ELSE @]

\* reset_failed_logins that leaves the row as it is
reset_failed_logins_noop(user) == user

reset_failed_logins(user) ==
  [user EXCEPT !.failed_login_attempts = 0, !.account_locked_until = NULL]

\* is_account_locked that never answers locked
is_account_locked_never(user, t) == [locked |-> FALSE, user |-> user]

\* is_account_locked that keeps the counter when it clears an expired lock
is_account_locked_keeps_counter(user, t) ==
  IF user.account_locked_until = NULL
  THEN [locked |-> FALSE, user |-> user]
  ELSE IF t > user.account_locked_until
  THEN [locked |-> FALSE,
        user |-> [user EXCEPT !.account_locked_until = NULL]]
  ELSE [locked |-> TRUE, user |-> user]

\* the answer of is_account_locked and the row it leaves: an expired lock is
\* cleared together with the counter
is_account_locked(user, t) ==
  IF user.account_locked_until = NULL
  THEN [locked |-> FALSE, user |-> user]
  ELSE IF t > user.account_locked_until
  THEN [locked |-> FALSE,
        user |-> [user EXCEPT !.account_locked_until = NULL,
                              !.failed_login_attempts = 0]]
  ELSE [locked |-> TRUE, user |-> user]

(***************************************************************************)
(* Queries.                                                                *)
(***************************************************************************)
\* .first() of a query whose matching ids are `ids`: the lowest, or NULL
First(ids) ==
  IF ids = {} THEN NULL
  ELSE CHOOSE i \in ids : \A j \in ids : i <= j

ByUsername(username) ==
  First({i \in 1..Len(accounts) : accounts[i].username = username})

\* ByEmail that finds no row
ByEmail_none(email) == NULL

ByEmail(email) ==
  First({i \in 1..Len(accounts) : accounts[i].email = email})

ByUsernameOrEmail(identifier) ==
  First({i \in 1..Len(accounts) :
           \/ accounts[i].username = identifier
           \/ accounts[i].email = identifier})

ByVerificationToken(token) ==
  First({i \in 1..Len(accounts) : accounts[i].verification_token = token})

ByResetToken(token) ==
  First({i \in 1..Len(accounts) : accounts[i].password_reset_token = token})

Return(op, ok, user, message) ==
  ret' = [op |-> op, ok |-> ok, user |-> user, message |-> message]

quiz == <<session, users, attempts, user_answers, last, inflight>>

(***************************************************************************)
(* AuthService.                                                            *)
(***************************************************************************)
register_user(username, email, password) ==
  IF ByUsername(username) # NULL
  THEN /\ Return("register_user", FALSE, NULL, "Username already taken")
       /\ UNCHANGED <<accounts, next_token, now, quiz>>
  ELSE IF ByEmail(email) # NULL
  THEN /\ Return("register_user", FALSE, NULL, "Email already registered")
       /\ UNCHANGED <<accounts, next_token, now, quiz>>
  ELSE /\ Len(accounts) < MaxUsers
       /\ next_token <= MaxTokens
       /\ LET user == [username |-> username,
                       email |-> email,
                       password_hash |-> NoHash,
                       is_active |-> TRUE,
                       email_verified |-> FALSE,
                       verification_token |-> NULL,
                       password_reset_token |-> NULL,
                       reset_token_expires |-> NULL,
                       failed_login_attempts |-> 0,
                       account_locked_until |-> NULL]
          IN accounts' = Append(accounts,
               generate_verification_token(set_password(user, password),
                                           next_token))
       /\ next_token' = next_token + 1
       /\ Return("register_user", TRUE, Len(accounts) + 1, "")
       /\ UNCHANGED <<now, quiz>>

\* authenticate_user that looks at is_active before the lock
authenticate_user_inactive_first(username_or_email, password) ==
  LET id == ByUsernameOrEmail(username_or_email)
  IN IF id = NULL
     THEN /\ Return("authenticate_user", FALSE, NULL, InvalidCredentials)
          /\ UNCHANGED <<accounts, next_token, now, quiz>>
     ELSE LET lock == is_account_locked(accounts[id], now)
              user == lock.user
          IN IF ~accounts[id].is_active
             THEN /\ Return("authenticate_user", FALSE, NULL,
                            AccountDeactivated)
                  /\ UNCHANGED <<accounts, next_token, now, quiz>>
             ELSE IF lock.locked
             THEN /\ Return("authenticate_user", FALSE, NULL, AccountLocked)
                  /\ UNCHANGED <<accounts, next_token, now, quiz>>
             ELSE IF ~check_password(user, password)
             THEN /\ accounts' = [accounts EXCEPT
                                    ![id] = record_failed_login(user, now)]
                  /\ Return("authenticate_user", FALSE, NULL,
                            InvalidCredentials)
                  /\ UNCHANGED <<next_token, now, quiz>>
             ELSE /\ accounts' = [accounts EXCEPT
                                    ![id] = reset_failed_logins(user)]
                  /\ Return("authenticate_user", TRUE, id, "")
                  /\ UNCHANGED <<next_token, now, quiz>>

authenticate_user(username_or_email, password) ==
  LET id == ByUsernameOrEmail(username_or_email)
  IN IF id = NULL
     THEN /\ Return("authenticate_user", FALSE, NULL, InvalidCredentials)
          /\ UNCHANGED <<accounts, next_token, now, quiz>>
     ELSE LET lock == is_account_locked(accounts[id], now)
              user == lock.user
          IN IF lock.locked
             THEN /\ Return("authenticate_user", FALSE, NULL, AccountLocked)
                  /\ UNCHANGED <<accounts, next_token, now, quiz>>
             ELSE IF ~user.is_active
             THEN \* returns without commit: the cleared lock stays in the
                  \* database session, a later commit writes it and the
                  \* end of the request discards it
                  /\ \/ accounts' = accounts
                     \/ accounts' = [accounts EXCEPT ![id] = user]
                  /\ Return("authenticate_user", FALSE, NULL,
                            AccountDeactivated)
                  /\ UNCHANGED <<next_token, now, quiz>>
             ELSE IF ~check_password(user, password)
             THEN /\ accounts' = [accounts EXCEPT
                                    ![id] = record_failed_login(user, now)]
                  /\ Return("authenticate_user", FALSE, NULL,
                            InvalidCredentials)
                  /\ UNCHANGED <<next_token, now, quiz>>
             ELSE /\ accounts' = [accounts EXCEPT
                                    ![id] = reset_failed_logins(user)]
                  /\ Return("authenticate_user", TRUE, id, "")
                  /\ UNCHANGED <<next_token, now, quiz>>

verify_email(token) ==
  LET id == ByVerificationToken(token)
  IN IF id = NULL
     THEN /\ Return("verify_email", FALSE, NULL, InvalidVerificationToken)
          /\ UNCHANGED <<accounts, next_token, now, quiz>>
     ELSE /\ accounts' = [accounts EXCEPT ![id] = User_verify_email(@)]
          /\ Return("verify_email", TRUE, NULL, EmailVerified)
          /\ UNCHANGED <<next_token, now, quiz>>

request_password_reset(email) ==
  LET id == ByEmail(email)
  IN IF id = NULL
     THEN /\ Return("request_password_reset", FALSE, NULL, "")
          /\ UNCHANGED <<accounts, next_token, now, quiz>>
     ELSE /\ next_token <= MaxTokens
          /\ accounts' = [accounts EXCEPT
                            ![id] = generate_reset_token(@, next_token, now)]
          /\ next_token' = next_token + 1
          /\ Return("request_password_reset", TRUE, id, "")
          /\ UNCHANGED <<now, quiz>>

reset_password(token, new_password) ==
  LET id == ByResetToken(token)
  IN IF id = NULL
     THEN /\ Return("reset_password", FALSE, NULL, InvalidResetToken)
          /\ UNCHANGED <<accounts, next_token, now, quiz>>
     ELSE IF ~verify_reset_token(accounts[id], token, now)
     THEN /\ Return("reset_password", FALSE, NULL, ExpiredResetToken)
          /\ UNCHANGED <<accounts, next_token, now, quiz>>
     ELSE /\ accounts' = [accounts EXCEPT ![id] =
                            clear_reset_token(set_password(@, new_password))]
          /\ Return("reset_password", TRUE, NULL,
                    "Password reset successfully! You can now log in with your new password.")
          /\ UNCHANGED <<next_token, now, quiz>>

change_password(id, current_password, new_password) ==
  /\ id \in 1..Len(accounts)
  /\ IF ~check_password(accounts[id], current_password)
     THEN /\ Return("change_password", FALSE, NULL,
                    "Current password is incorrect")
          /\ UNCHANGED accounts
     ELSE /\ accounts' = [accounts EXCEPT
                            ![id] = set_password(@, new_password)]
          /\ Return("change_password", TRUE, NULL,
                    "Password changed successfully!")
  /\ UNCHANGED <<next_token, now, quiz>>

update_profile(id, username, email) ==
  /\ id \in 1..Len(accounts)
  /\ LET user == accounts[id]
         username_changed == username # user.username
         email_changed == email # user.email
         renamed == IF username_changed
                    THEN [user EXCEPT !.username = username] ELSE user
     IN IF username_changed /\ ByUsername(username) # NULL
        THEN /\ Return("update_profile", FALSE, NULL, "Username already taken")
             /\ UNCHANGED <<accounts, next_token>>
        ELSE IF email_changed /\ ByEmail(email) # NULL
        THEN \* returns without commit or rollback: the assigned username
             \* stays in the database session, a later commit writes it
             \* and the end of the request discards it
             /\ \/ accounts' = accounts
                \/ accounts' = [accounts EXCEPT ![id] = renamed]
             /\ Return("update_profile", FALSE, NULL,
                       "Email already registered")
             /\ UNCHANGED next_token
        ELSE IF email_changed
        THEN /\ next_token <= MaxTokens
             /\ accounts' = [accounts EXCEPT ![id] =
                  generate_verification_token(
                    [renamed EXCEPT !.email = email,
                                    !.email_verified = FALSE],
                    next_token)]
             /\ next_token' = next_token + 1
             /\ Return("update_profile", TRUE, NULL,
                       "Profile updated successfully! Please verify your new email address.")
        ELSE /\ accounts' = [accounts EXCEPT ![id] = renamed]
             /\ Return("update_profile", TRUE, NULL,
                       "Profile updated successfully!")
             /\ UNCHANGED next_token
  /\ UNCHANGED <<now, quiz>>

\* is_active has no writer in the services: support deactivates an account
Deactivate(id) ==
  /\ id \in 1..Len(accounts)
  /\ accounts[id].is_active
  /\ accounts' = [accounts EXCEPT ![id].is_active = FALSE]
  /\ UNCHANGED <<next_token, ret, now, quiz>>

\* datetime.utcnow() advances between calls
Elapse ==
  /\ now < MaxClock
  /\ now' = now + 1
  /\ UNCHANGED <<accounts, next_token, ret, quiz>>

(***************************************************************************)
(* Login and lockout.                                                      *)
(***************************************************************************)
NextLogin ==
  \/ \E username \in AuthUsernames, email \in Emails, password \in Passwords :
       register_user(username, email, password)
  \/ \E identifier \in Identifiers, password \in Passwords :
       authenticate_user(identifier, password)
  \/ \E id \in 1..MaxUsers : Deactivate(id)
  \/ Elapse

SpecLogin == Init /\ [][NextLogin]_vars

(***************************************************************************)
(* Registration, email verification, profile and password reset.           *)
(***************************************************************************)
\* the users table when the services start: empty, or holding the row the
\* tests of verify_email create, a verified user that still has a token
\* (UserFactory(email_verified=True, verification_token="old_token"))
Fixtures ==
  { [accounts |-> <<>>, next_token |-> 1],
    [accounts |->
       << [username |-> "alice",
           email |-> "alice@example.com",
           password_hash |-> generate_password_hash("TestPass123"),
           is_active |-> TRUE,
           email_verified |-> TRUE,
           verification_token |-> 1,
           password_reset_token |-> NULL,
           reset_token_expires |-> NULL,
           failed_login_attempts |-> 0,
           account_locked_until |-> NULL] >>,
     next_token |-> 2] }

InitAccount ==
  /\ session = EmptySession
  /\ users = <<>>
  /\ attempts = <<>>
  /\ user_answers = <<>>
  /\ now = 1
  /\ last = [route |-> "", arg |-> "", status |-> ""]
  /\ \E fixture \in Fixtures :
       /\ accounts = fixture.accounts
       /\ next_token = fixture.next_token
  /\ ret = [op |-> "", ok |-> FALSE, user |-> NULL, message |-> ""]
  /\ inflight = <<>>

NextAccount ==
  \/ \E username \in AuthUsernames, email \in Emails, password \in Passwords :
       register_user(username, email, password)
  \/ \E token \in Tokens : verify_email(token)
  \/ \E id \in 1..MaxUsers, username \in ProfileUsernames, email \in Emails :
       update_profile(id, username, email)
  \/ \E email \in Emails : request_password_reset(email)
  \/ \E token \in Tokens, new_password \in Passwords :
       reset_password(token, new_password)
  \/ \E id \in 1..MaxUsers, current_password, new_password \in Passwords :
       change_password(id, current_password, new_password)
  \/ Elapse

SpecAccount == InitAccount /\ [][NextAccount]_vars

(***************************************************************************)
(* Properties of login and lockout.                                        *)
(***************************************************************************)
\* the account's lock is set and its time has not passed
LockActive(user, t) ==
  /\ user.account_locked_until # NULL
  /\ t <= user.account_locked_until

\* the counter a new failure is added to: 0 once the lock has passed
CounterBase(user, t) ==
  IF user.account_locked_until # NULL /\ t > user.account_locked_until
  THEN 0 ELSE user.failed_login_attempts

\* C12: a login with a wrong password on an active account without a lock
\* adds one to the account's failure counter; while the counter stays below
\* 5 the account is not locked, and with the fifth failure it is locked.  A
\* login with the right password on an account with 5 failures and a lock
\* that has not passed returns the account-locked error and changes nothing.
C12_FiveFailuresLock ==
  /\ [][\A identifier \in Identifiers, password \in Passwords :
          LET id == ByUsernameOrEmail(identifier)
          IN (/\ ret'.op = "authenticate_user"
              /\ id # NULL
              /\ accounts[id].account_locked_until = NULL
              /\ accounts[id].is_active
              /\ accounts[id].password_hash #
                   generate_password_hash(password)
              /\ authenticate_user(identifier, password)) =>
               LET n == accounts[id].failed_login_attempts + 1
               IN /\ accounts'[id].failed_login_attempts = n
                  /\ n <= 5
                  /\ is_account_locked(accounts'[id], now').locked <=> n = 5
                  /\ n < 5 => accounts'[id].account_locked_until = NULL]_vars
  /\ [][\A identifier \in Identifiers, password \in Passwords :
          LET id == ByUsernameOrEmail(identifier)
          IN (/\ ret'.op = "authenticate_user"
              /\ id # NULL
              /\ accounts[id].failed_login_attempts = 5
              /\ accounts[id].account_locked_until # NULL
              /\ now <= accounts[id].account_locked_until
              /\ accounts[id].password_hash =
                   generate_password_hash(password)
              /\ authenticate_user(identifier, password)) =>
               /\ ret' = [op |-> "authenticate_user", ok |-> FALSE,
                          user |-> NULL, message |-> AccountLocked]
               /\ accounts' = accounts]_vars

\* C12, its case: an account with five failures whose login was just refused
\* as locked
C12_Witness ==
  /\ ret.op = "authenticate_user"
  /\ ret.message = AccountLocked
  /\ \E id \in 1..Len(accounts) :
       /\ accounts[id].failed_login_attempts = 5
       /\ accounts[id].account_locked_until # NULL
       /\ now <= accounts[id].account_locked_until

\* C13: authenticate_user answers with the first that applies of: user not
\* found (generic error), account locked (locked error, whatever is_active
\* and the password are), account inactive (deactivated error), password
\* wrong (the same generic error); a failure is counted in the last case
\* and in no other, and a login that passes all four succeeds.
C13_ChecksInOrder ==
  [][\A identifier \in Identifiers, password \in Passwords :
       (/\ ret'.op = "authenticate_user"
        /\ authenticate_user(identifier, password)) =>
         LET id == ByUsernameOrEmail(identifier)
             right == accounts[id].password_hash =
                        generate_password_hash(password)
         IN IF id = NULL
            THEN /\ ret'.message = InvalidCredentials
                 /\ ~ret'.ok
                 /\ accounts' = accounts
            ELSE IF LockActive(accounts[id], now)
            THEN /\ ret'.message = AccountLocked
                 /\ ~ret'.ok
                 /\ accounts' = accounts
            ELSE IF ~accounts[id].is_active
            THEN /\ ret'.message = AccountDeactivated
                 /\ ~ret'.ok
                 /\ accounts'[id].failed_login_attempts <=
                      accounts[id].failed_login_attempts
            ELSE IF ~right
            THEN /\ ret'.message = InvalidCredentials
                 /\ ~ret'.ok
                 /\ accounts'[id].failed_login_attempts =
                      CounterBase(accounts[id], now) + 1
            ELSE /\ ret'.ok
                 /\ ret'.user = id
                 /\ accounts'[id].failed_login_attempts = 0]_vars

\* C13, its case: the locked error was returned for an account that is both
\* locked and inactive
C13_Witness ==
  /\ ret.op = "authenticate_user"
  /\ ret.message = AccountLocked
  /\ \E id \in 1..Len(accounts) :
       /\ LockActive(accounts[id], now)
       /\ ~accounts[id].is_active

\* C14: on every account the services can produce, at every time,
\* is_account_locked answers true exactly when account_locked_until is set
\* and has not passed; on a lock that has passed it answers false and leaves
\* the row with account_locked_until and the counter cleared and nothing
\* else changed; otherwise it leaves the row as it was.
C14_LockedIffNotExpired ==
  \A id \in 1..Len(accounts) :
    LET user == accounts[id]
        answer == is_account_locked(user, now)
    IN /\ answer.locked <=>
            (user.account_locked_until # NULL /\
             ~(now > user.account_locked_until))
       /\ IF user.account_locked_until # NULL /\
             now > user.account_locked_until
          THEN /\ ~answer.locked
               /\ answer.user = [user EXCEPT !.account_locked_until = NULL,
                                             !.failed_login_attempts = 0]
          ELSE answer.user = user

\* C14, its case: an account whose lock has passed and is still stored
C14_Witness ==
  \E id \in 1..Len(accounts) :
    /\ accounts[id].account_locked_until # NULL
    /\ now > accounts[id].account_locked_until
    /\ accounts[id].failed_login_attempts = 5

\* C15: a login that succeeds (account found, lock absent or passed, account
\* active, password right) leaves the account with a failure counter of 0
\* and no lock, whatever the counter was before.
C15_SuccessResetsCounter ==
  [][\A identifier \in Identifiers, password \in Passwords :
       LET id == ByUsernameOrEmail(identifier)
       IN (/\ ret'.op = "authenticate_user"
           /\ id # NULL
           /\ ~LockActive(accounts[id], now)
           /\ accounts[id].is_active
           /\ accounts[id].password_hash = generate_password_hash(password)
           /\ authenticate_user(identifier, password)) =>
            /\ ret'.ok
            /\ ret'.user = id
            /\ accounts'[id].failed_login_attempts = 0
            /\ accounts'[id].account_locked_until = NULL
            /\ accounts' = [accounts EXCEPT
                 ![id] = [@ EXCEPT !.failed_login_attempts = 0,
                                   !.account_locked_until = NULL]]]_vars

\* C15, its case: a login has just succeeded and its account stands at 0
\* failures without a lock
C15_Witness ==
  /\ ret.op = "authenticate_user"
  /\ ret.ok
  /\ ret.user \in 1..Len(accounts)
  /\ accounts[ret.user].failed_login_attempts = 0
  /\ accounts[ret.user].account_locked_until = NULL

(***************************************************************************)
(* Properties of registration, verification and password reset.            *)
(***************************************************************************)
\* no two rows share a username or an email
UniqueAccounts ==
  \A i, j \in 1..Len(accounts) :
    i # j => /\ accounts[i].username # accounts[j].username
             /\ accounts[i].email # accounts[j].email

\* some row other than id holds the username / the email
UsernameHeldByOther(id, username) ==
  \E j \in 1..Len(accounts) : j # id /\ accounts[j].username = username
EmailHeldByOther(id, email) ==
  \E j \in 1..Len(accounts) : j # id /\ accounts[j].email = email

\* C16: no two users ever share a username or an email; register_user with
\* a username or an email some user holds returns an error and leaves the
\* table as it is; update_profile to a username or an email another user
\* holds returns an error.
C16_UniqueUsernamesAndEmails ==
  /\ []UniqueAccounts
  /\ [][\A username \in AuthUsernames, email \in Emails,
          password \in Passwords :
          (/\ ret'.op = "register_user"
           /\ UsernameHeldByOther(0, username) \/ EmailHeldByOther(0, email)
           /\ register_user(username, email, password)) =>
            /\ ~ret'.ok
            /\ ret'.message \in {"Username already taken",
                                 "Email already registered"}
            /\ accounts' = accounts]_vars
  /\ [][\A id \in 1..MaxUsers, username \in ProfileUsernames,
          email \in Emails :
          (/\ ret'.op = "update_profile"
           /\ id <= Len(accounts)
           /\ UsernameHeldByOther(id, username) \/ EmailHeldByOther(id, email)
           /\ update_profile(id, username, email)) =>
            /\ ~ret'.ok
            /\ ret'.message \in {"Username already taken",
                                 "Email already registered"}]_vars

\* C16, its case: with two users in the table a profile update was refused
\* because another user holds the email
C16_Witness ==
  /\ Len(accounts) = 2
  /\ ret.op = "update_profile"
  /\ ~ret.ok
  /\ ret.message = "Email already registered"

\* C17: register_user creates its user unverified with a token; a user's
\* email_verified turns true only in a verify_email called with the token
\* that user holds; an update_profile that changes the email leaves the user
\* unverified with a token that no row held before.
C17_VerifiedOnlyByToken ==
  /\ [][\A username \in AuthUsernames, email \in Emails,
          password \in Passwords :
          (/\ ret'.op = "register_user"
           /\ ~UsernameHeldByOther(0, username)
           /\ ~EmailHeldByOther(0, email)
           /\ register_user(username, email, password)) =>
            /\ Len(accounts') = Len(accounts) + 1
            /\ ~accounts'[Len(accounts')].email_verified
            /\ accounts'[Len(accounts')].verification_token # NULL]_vars
  /\ [][\A id \in 1..MaxUsers :
          (/\ id <= Len(accounts)
           /\ ~accounts[id].email_verified
           /\ accounts'[id].email_verified) =>
            /\ accounts[id].verification_token # NULL
            /\ verify_email(accounts[id].verification_token)]_vars
  /\ [][\A id \in 1..MaxUsers, username \in ProfileUsernames,
          email \in Emails :
          (/\ ret'.op = "update_profile"
           /\ id <= Len(accounts)
           /\ email # accounts[id].email
           /\ ~UsernameHeldByOther(id, username)
           /\ ~EmailHeldByOther(id, email)
           /\ update_profile(id, username, email)) =>
            /\ ret'.ok
            /\ accounts'[id].email = email
            /\ ~accounts'[id].email_verified
            /\ accounts'[id].verification_token # NULL
            /\ \A j \in 1..Len(accounts) :
                 accounts[j].verification_token #
                   accounts'[id].verification_token]_vars

\* C17, its case: a profile update has changed an email and left its user
\* unverified with the token that was issued last
C17_Witness ==
  /\ ret.op = "update_profile"
  /\ ret.message =
       "Profile updated successfully! Please verify your new email address."
  /\ \E id \in 1..Len(accounts) :
       /\ ~accounts[id].email_verified
       /\ accounts[id].verification_token = next_token - 1

\* C18: verify_email with a token some user holds succeeds, marks that user
\* verified and leaves no row holding the token; a token that was issued and
\* is held by no row is never held again; verify_email with a token no row
\* holds fails with the invalid-token error and leaves the table as it is.
C18_VerificationTokenSingleUse ==
  /\ [][\A token \in Tokens :
          (/\ ret'.op = "verify_email"
           /\ ByVerificationToken(token) # NULL
           /\ verify_email(token)) =>
            /\ ret'.ok
            /\ accounts'[ByVerificationToken(token)].email_verified
            /\ \A j \in 1..Len(accounts') :
                 accounts'[j].verification_token # token]_vars
  /\ [][\A token \in Tokens :
          (/\ token < next_token
           /\ \A j \in 1..Len(accounts) :
                accounts[j].verification_token # token) =>
            \A j \in 1..Len(accounts') :
              accounts'[j].verification_token # token]_vars
  /\ [][\A token \in Tokens :
          (/\ ret'.op = "verify_email"
           /\ ByVerificationToken(token) = NULL
           /\ verify_email(token)) =>
            /\ ~ret'.ok
            /\ ret'.message = InvalidVerificationToken
            /\ accounts' = accounts]_vars

\* C18, its case: a verification was refused as invalid while a user is
\* verified and holds no token any more
C18_Witness ==
  /\ ret.op = "verify_email"
  /\ ~ret.ok
  /\ ret.message = InvalidVerificationToken
  /\ \E id \in 1..Len(accounts) :
       /\ accounts[id].email_verified
       /\ accounts[id].verification_token = NULL

\* C19: verify_email with the token of a user whose email is already
\* verified fails, with a message other than the one of a successful
\* verification.
C19_AlreadyVerifiedRejected ==
  [][\A token \in Tokens :
       LET id == ByVerificationToken(token)
       IN (/\ ret'.op = "verify_email"
           /\ id # NULL
           /\ accounts[id].email_verified
           /\ verify_email(token)) =>
            /\ ~ret'.ok
            /\ ret'.message # EmailVerified]_vars

\* C20: verify_reset_token accepts a token only for a row that stores a
\* reset token and an expiry, when the token is the stored one and the time
\* is not past the expiry; reset_password with a token no row holds, or with
\* a token whose expiry has passed, fails and leaves the table as it is.
C20_ResetTokenFailsClosed ==
  /\ [](\A id \in 1..Len(accounts), token \in Tokens :
          verify_reset_token(accounts[id], token, now) =>
            /\ accounts[id].password_reset_token # NULL
            /\ accounts[id].reset_token_expires # NULL
            /\ accounts[id].password_reset_token = token
            /\ ~(now > accounts[id].reset_token_expires))
  /\ [][\A token \in Tokens, new_password \in Passwords :
          LET id == ByResetToken(token)
          IN (/\ ret'.op = "reset_password"
              /\ \/ id = NULL
                 \/ now > accounts[id].reset_token_expires
              /\ reset_password(token, new_password)) =>
               /\ ~ret'.ok
               /\ ret'.message \in {InvalidResetToken, ExpiredResetToken}
               /\ accounts' = accounts]_vars

\* C20, its case: a reset was refused as expired and the row still stores
\* the token whose expiry has passed
C20_Witness ==
  /\ ret.op = "reset_password"
  /\ ret.message = ExpiredResetToken
  /\ \E id \in 1..Len(accounts) :
       /\ accounts[id].password_reset_token # NULL
       /\ now > accounts[id].reset_token_expires

\* C21: a reset_password or a change_password that succeeds leaves its user
\* without a reset token and without an expiry.
C21_PasswordChangeClearsResetToken ==
  /\ [][\A token \in Tokens, new_password \in Passwords :
          LET id == ByResetToken(token)
          IN (/\ ret'.op = "reset_password"
              /\ ret'.ok
              /\ id # NULL
              /\ reset_password(token, new_password)) =>
               /\ accounts'[id].password_reset_token = NULL
               /\ accounts'[id].reset_token_expires = NULL]_vars
  /\ [][\A id \in 1..MaxUsers, current_password, new_password \in Passwords :
          (/\ ret'.op = "change_password"
           /\ ret'.ok
           /\ change_password(id, current_password, new_password)) =>
            /\ accounts'[id].password_reset_token = NULL
            /\ accounts'[id].reset_token_expires = NULL]_vars

\* C22: a reset_password that succeeds with a token leaves no row holding
\* that token; a token that was issued and is held by no row as a reset
\* token is never held again; reset_password with a token no row holds fails
\* with the invalid-token error and leaves the table as it is.
C22_ResetTokenSingleUse ==
  /\ [][\A token \in Tokens, new_password \in Passwords :
          (/\ ret'.op = "reset_password"
           /\ ret'.ok
           /\ reset_password(token, new_password)) =>
            \A j \in 1..Len(accounts') :
              accounts'[j].password_reset_token # token]_vars
  /\ [][\A token \in Tokens :
          (/\ token < next_token
           /\ \A j \in 1..Len(accounts) :
                accounts[j].password_reset_token # token) =>
            \A j \in 1..Len(accounts') :
              accounts'[j].password_reset_token # token]_vars
  /\ [][\A token \in Tokens, new_password \in Passwords :
          (/\ ret'.op = "reset_password"
           /\ \A j \in 1..Len(accounts) :
                accounts[j].password_reset_token # token
           /\ reset_password(token, new_password)) =>
            /\ ~ret'.ok
            /\ ret'.message = InvalidResetToken
            /\ accounts' = accounts]_vars

\* C22, its case: a reset was refused as invalid when the only token issued
\* since the start was a reset token (its user is still verified, so no
\* email change drew it) and a successful reset has consumed it
C22_Witness ==
  /\ ret.op = "reset_password"
  /\ ~ret.ok
  /\ ret.message = InvalidResetToken
  /\ Len(accounts) = 1
  /\ accounts[1].email_verified
  /\ accounts[1].verification_token = 1
  /\ next_token = 3
  /\ accounts[1].password_reset_token = NULL

\* C23: request_password_reset returns the same success indicator and the
\* same message as the request_password_reset before it, whichever emails
\* the two were called with.
C23_ResetRequestResultUniform ==
  [][\A email \in Emails :
       (/\ ret.op = "request_password_reset"
        /\ ret'.op = "request_password_reset"
        /\ request_password_reset(email)) =>
         /\ ret'.ok = ret.ok
         /\ ret'.message = ret.message]_vars

(***************************************************************************)
(* Further properties of login and lockout.                                *)
(***************************************************************************)
\* C24: when register_user has just created a user (nothing was called
\* since and the account is still active), authenticate_user with that
\* user's username or email and the registered password succeeds, returns
\* that user and leaves the failure counter at 0; with another password it
\* fails and leaves the counter at 1.
C24_RegisterThenAuthenticate ==
  [][\A identifier \in Identifiers, password \in Passwords :
       (/\ ret.op = "register_user"
        /\ ret.ok
        /\ ret'.op = "authenticate_user"
        /\ accounts[ret.user].is_active
        /\ identifier \in {accounts[ret.user].username,
                           accounts[ret.user].email}
        /\ authenticate_user(identifier, password)) =>
         IF accounts[ret.user].password_hash = generate_password_hash(password)
         THEN /\ ret'.ok
              /\ ret'.user = ret.user
              /\ accounts'[ret.user].failed_login_attempts = 0
         ELSE /\ ~ret'.ok
              /\ ret'.message = InvalidCredentials
              /\ accounts'[ret.user].failed_login_attempts = 1]_vars

\* C24, its case: the user registered second has logged in and no login of
\* that user has failed
C24_Witness ==
  /\ ret.op = "authenticate_user"
  /\ ret.ok
  /\ Len(accounts) = 2
  /\ ret.user = 2
  /\ accounts[2].failed_login_attempts = 0

(***************************************************************************)
(* User.get_stats (src/models.py), which dashboard() calls for the user of *)
(* the session.  Percentages are exact rationals <<num, den>>.             *)
(***************************************************************************)
\* Python round(n/d, 1): nearest multiple of 1/10, ties to the even one
PyRound1(n, d) ==
  LET q == (10 * n) \div d
      r == (10 * n) % d
      h == IF 2 * r > d THEN q + 1
           ELSE IF 2 * r < d THEN q
           ELSE IF q % 2 = 0 THEN q ELSE q + 1
  IN Ratio(h, 10)

RatAdd(x, y) == Ratio(x[1] * y[2] + y[1] * x[2], x[2] * y[2])
RatLess(x, y) == x[1] * y[2] < y[1] * x[2]

\* sum(percentages) and max(percentages) of a list of rationals
RECURSIVE SumOf(_)
SumOf(list) ==
  IF list = <<>> THEN <<0, 1>> ELSE RatAdd(Head(list), SumOf(Tail(list)))

RECURSIVE MaxOf(_)
MaxOf(list) ==
  IF Len(list) = 1 THEN Head(list)
  ELSE LET m == MaxOf(Tail(list))
       IN IF RatLess(Head(list), m) THEN m ELSE Head(list)

\* self.attempts: the attempts of the user, in id order
AttemptsOf(user_id) ==
  SelectSeq(attempts, LAMBDA a : a.user_id = user_id)

\* completed_attempts that keeps the attempts in progress
completed_attempts_all(list) == list

\* [a for a in self.attempts if a.completed_at is not None]
completed_attempts(list) ==
  SelectSeq(list, LAMBDA a : a.completed_at # NULL)

get_stats(user_id) ==
  LET completed == completed_attempts(AttemptsOf(user_id))
      percentages == [i \in 1..Len(completed) |-> completed[i].percentage]
      total == SumOf(percentages)
  IN IF Len(AttemptsOf(user_id)) = 0 \/ Len(completed) = 0
     THEN [total_attempts |-> 0, avg_score |-> <<0, 1>>,
           best_score |-> <<0, 1>>]
     ELSE [total_attempts |-> Len(completed),
           avg_score |-> PyRound1(total[1], total[2] * Len(percentages)),
           best_score |-> PyRound1(MaxOf(percentages)[1],
                                   MaxOf(percentages)[2])]

(***************************************************************************)
(* Properties of the statistics.                                           *)
(***************************************************************************)
\* the ids of the user's attempts that have a completion timestamp
CompletedIds(user_id) ==
  {a \in 1..Len(attempts) :
     attempts[a].user_id = user_id /\ attempts[a].completed_at # NULL}

\* the sum of the percentages of a set of attempts, times 3 (every
\* percentage is a multiple of 1/3: the quiz has three questions)
RECURSIVE ThirdsOf(_)
ThirdsOf(ids) ==
  IF ids = {} THEN 0
  ELSE LET a == CHOOSE a \in ids : TRUE
       IN (3 * attempts[a].percentage[1]) \div attempts[a].percentage[2]
          + ThirdsOf(ids \ {a})

\* the percentage that no completed attempt of the set exceeds
BestOf(ids) ==
  CHOOSE p \in {attempts[a].percentage : a \in ids} :
    \A a \in ids : ~RatLess(p, attempts[a].percentage)

\* C25 (as claimed): total_attempts is the number of the user's completed
\* attempts, avg_score is the mean of their percentages and best_score their
\* maximum; all three are 0 when the user has no completed attempt.
C25_StatsExact ==
  \A user_id \in 1..Len(users) :
    LET ids == CompletedIds(user_id)
        stats == get_stats(user_id)
    IN /\ stats.total_attempts = Cardinality(ids)
       /\ IF ids = {}
          THEN stats.avg_score = <<0, 1>> /\ stats.best_score = <<0, 1>>
          ELSE /\ stats.avg_score = Ratio(ThirdsOf(ids), 3 * Cardinality(ids))
               /\ stats.best_score = BestOf(ids)

\* C25 (amended): as claimed, except that avg_score is the mean rounded to
\* one decimal and best_score the maximum rounded to one decimal.
C25_StatsRounded ==
  \A user_id \in 1..Len(users) :
    LET ids == CompletedIds(user_id)
        stats == get_stats(user_id)
    IN /\ stats.total_attempts = Cardinality(ids)
       /\ IF ids = {}
          THEN stats.avg_score = <<0, 1>> /\ stats.best_score = <<0, 1>>
          ELSE /\ stats.avg_score =
                    PyRound1(ThirdsOf(ids), 3 * Cardinality(ids))
               /\ stats.best_score =
                    PyRound1(BestOf(ids)[1], BestOf(ids)[2])

\* C25, its case: a user has a completed attempt whose percentage has more
\* than one decimal, and an attempt in progress
C25_Witness ==
  \E user_id \in 1..Len(users) :
    /\ \E a \in CompletedIds(user_id) : attempts[a].percentage[2] = 3
    /\ \E a \in 1..Len(attempts) :
         attempts[a].user_id = user_id /\ attempts[a].completed_at = NULL

\* C26: while an account's lock has not passed, a login with any password
\* is refused as locked and leaves every row as it was, so the lock is not
\* extended: a stored lock never ends more than the lock duration after
\* the present.  Once the lock has passed, a login with the right password
\* on the (active) account succeeds.
C26_LockNotExtended ==
  /\ [][\A identifier \in Identifiers, password \in Passwords :
          LET id == ByUsernameOrEmail(identifier)
          IN (/\ ret'.op = "authenticate_user"
              /\ id # NULL
              /\ LockActive(accounts[id], now)
              /\ authenticate_user(identifier, password)) =>
               /\ accounts' = accounts
               /\ ret' = [op |-> "authenticate_user", ok |-> FALSE,
                          user |-> NULL, message |-> AccountLocked]]_vars
  /\ [](\A id \in 1..Len(accounts) :
          accounts[id].account_locked_until # NULL =>
            accounts[id].account_locked_until <= now + LockDuration)
  /\ [][\A identifier \in Identifiers, password \in Passwords :
          LET id == ByUsernameOrEmail(identifier)
          IN (/\ ret'.op = "authenticate_user"
              /\ id # NULL
              /\ accounts[id].account_locked_until # NULL
              /\ now > accounts[id].account_locked_until
              /\ accounts[id].is_active
              /\ accounts[id].password_hash = generate_password_hash(password)
              /\ authenticate_user(identifier, password)) =>
               /\ ret'.ok
               /\ ret'.user = id
               /\ accounts'[id].account_locked_until = NULL]_vars

\* C26, its case: time has gone by since the fifth failure, a login was
\* just refused as locked, and the lock still ends when it did
C26_Witness ==
  /\ ret.op = "authenticate_user"
  /\ ret.message = AccountLocked
  /\ now > 0
  /\ \E id \in 1..Len(accounts) :
       /\ accounts[id].account_locked_until = now
       /\ accounts[id].failed_login_attempts = LockThreshold

\* C27: every account's failure counter is between 0 and 5, and an account
\* has a lock time only when its counter is at least 5.
C27_CounterBounded ==
  \A id \in 1..Len(accounts) :
    /\ accounts[id].failed_login_attempts \in 0..LockThreshold
    /\ accounts[id].account_locked_until # NULL =>
         accounts[id].failed_login_attempts >= LockThreshold

\* C27, its case: an account at five failures with its lock time, next to
\* an account that has some failures and no lock
C27_Witness ==
  \E id, other \in 1..Len(accounts) :
    /\ accounts[id].failed_login_attempts = LockThreshold
    /\ accounts[id].account_locked_until # NULL
    /\ accounts[other].failed_login_attempts \in 1..(LockThreshold - 1)
    /\ accounts[other].account_locked_until = NULL

(***************************************************************************)
(* Two users of one browser: the routes of src/app.py with two usernames   *)
(* at the login form.                                                      *)
(***************************************************************************)
OwnerUsernames == {"alice", "bob"}

NextOwner ==
  \/ \E username \in OwnerUsernames : Login(username)
  \/ Logout
  \/ \E quiz_id \in QuizIdForms \cap {"1"} : StartQuiz(quiz_id)
  \/ \E answer \in AnswerForms \ {"abc"} : SubmitAnswer(answer)
  \/ Results

SpecOwner == Init /\ [][NextOwner]_vars

\* C28: whenever results() writes completed_at and score to an attempt, the
\* user of the session is the attempt's user_id; and a login that changes
\* the user of the session leaves no quiz state of the previous user in it.
C28_FinalizedByOwner ==
  /\ [][(/\ last'.route = "results"
         /\ LoggedIn(session)
         /\ session.has_questions
         /\ session.attempt_id \in 1..Len(attempts)
         /\ Results) =>
          attempts[session.attempt_id].user_id = session.user_id]_vars
  /\ [][\A username \in OwnerUsernames :
          (/\ last'.route = "login"
           /\ Login(username)
           /\ session'.user_id # session.user_id) =>
            /\ ~session'.has_questions
            /\ session'.attempt_id = NULL]_vars

(***************************************************************************)
(* Further properties of the profile and the password reset.               *)
(***************************************************************************)
\* C29: an update_profile that is refused because the username or the
\* email is taken leaves the user's username, email, email_verified flag
\* and verification token as they were.
C29_RefusedUpdateChangesNothing ==
  [][\A id \in 1..MaxUsers, username \in ProfileUsernames, email \in Emails :
       (/\ ret'.op = "update_profile"
        /\ ~ret'.ok
        /\ update_profile(id, username, email)) =>
         /\ accounts'[id].username = accounts[id].username
         /\ accounts'[id].email = accounts[id].email
         /\ accounts'[id].email_verified = accounts[id].email_verified
         /\ accounts'[id].verification_token =
              accounts[id].verification_token]_vars

(***************************************************************************)
(* Login and password reset together: an account that fails its logins    *)
(* and resets its password.                                                *)
(***************************************************************************)
NextRecover ==
  \/ \E username \in AuthUsernames, email \in Emails, password \in Passwords :
       register_user(username, email, password)
  \/ \E identifier \in Identifiers, password \in Passwords :
       authenticate_user(identifier, password)
  \/ \E email \in Emails : request_password_reset(email)
  \/ \E token \in Tokens, new_password \in Passwords :
       reset_password(token, new_password)
  \/ Elapse

SpecRecover == Init /\ [][NextRecover]_vars

====
